---- MODULE Spec2Model ----
(***************************************************************************)
(* Model of the SSR / SSG / deploy pipeline of the vanilla storefront:     *)
(*   main-server (render, findRoute, prefetch*, initializeStores),         *)
(*   static-site-generate.js (generateStaticSite),                         *)
(*   server.js (ssrMiddleware, errorMiddleware) and deploy.js (deploy).    *)
(*                                                                         *)
(* Strings are sequences of tokens.  A token is either one of the two      *)
(* delimiters "/" and "?" or a non-empty run of characters that contains   *)
(* neither; distinct tokens never concatenate to another token.            *)
(***************************************************************************)
EXTENDS Integers, Sequences, FiniteSets, TLC

VARIABLES
    \* ---- findRoute exercised on its own
    frUrl, frBase, frResult,
    \* ---- module-level singletons of main-server (shared by every render call)
    productStore, cartStore, uiStore, router,
    \* ---- one record per render call: position, locals, result
    call,
    \* ---- HTTP responses written per request (server.js)
    responses,
    \* ---- generateStaticSite
    ssg,
    \* ---- deploy.js: the file system and the script's position
    fs, dep,
    \* ---- how many failures the environment has injected so far
    failures

vars == <<frUrl, frBase, frResult, productStore, cartStore, uiStore, router,
          call, responses, ssg, fs, dep, failures>>

routeVars == <<frUrl, frBase, frResult>>
worldVars == <<productStore, cartStore, uiStore, router>>
deployVars == <<fs, dep>>

(***************************************************************************)
(* Bounds                                                                  *)
(***************************************************************************)
MaxUrlLen == 5
NumCalls == 2
MaxIds == 2
MaxPathLen == 5
\* failures (rejected API calls, throwing store / router / page / fs calls)
\* injected per run
MaxFailures == 2

Null == "null"
Undefined == "undefined"

(***************************************************************************)
(* String helpers (String.prototype.split / replace as used by the code)   *)
(***************************************************************************)
Tokens == {"/", "?", "product", "1", "x"}

\* the sequences over S of length at most n
RECURSIVE SeqsUpTo(_, _)
SeqsUpTo(S, n) ==
    IF n = 0 THEN {<<>>}
    ELSE LET shorter == SeqsUpTo(S, n - 1)
         IN  shorter \cup {Append(s, t) : s \in shorter, t \in S}

\* url.split("?")[0]
SplitQuery(url) ==
    IF \E i \in 1..Len(url) : url[i] = "?"
    THEN SubSeq(url, 1, (CHOOSE i \in 1..Len(url) :
                            /\ url[i] = "?"
                            /\ \A j \in 1..(i - 1) : url[j] # "?") - 1)
    ELSE url

OccursAt(s, pat, i) ==
    /\ i + Len(pat) - 1 <= Len(s)
    /\ \A k \in 1..Len(pat) : s[i + k - 1] = pat[k]

\* s.replace(pat, ""): the first occurrence only; an empty pattern removes nothing
ReplaceFirst(s, pat) ==
    IF pat # <<>> /\ \E i \in 1..Len(s) : OccursAt(s, pat, i)
    THEN LET i == CHOOSE i \in 1..Len(s) :
                      /\ OccursAt(s, pat, i)
                      /\ \A j \in 1..(i - 1) : ~OccursAt(s, pat, j)
         IN  SubSeq(s, 1, i - 1) \o SubSeq(s, i + Len(pat), Len(s))
    ELSE s

\* s.replace(/\/+$/, "")
RECURSIVE StripAllTrailingSlashes(_)
StripAllTrailingSlashes(s) ==
    IF s # <<>> /\ s[Len(s)] = "/"
    THEN StripAllTrailingSlashes(SubSeq(s, 1, Len(s) - 1))
    ELSE s

\* s.replace(/\/$/, "")
StripTrailingSlash(s) ==
    IF s # <<>> /\ s[Len(s)] = "/" THEN SubSeq(s, 1, Len(s) - 1) ELSE s

\* s || "/"
OrSlash(s) == IF s = <<>> THEN <<"/">> ELSE s

(***************************************************************************)
(* findRoute                                                               *)
(***************************************************************************)
NoParams == <<>>

\* "no route": what a failed match yields, and a local not yet assigned
NullRoute == [handler |-> Null, params |-> NoParams]

routes == << [pattern |-> <<"/">>, handler |-> "HomePage"],
             [pattern |-> <<"/", "product", "/", ":id">>,
              handler |-> "ProductDetailPage"] >>

\* /:\w+/ matches a pattern token of the form ":name"
IsParamToken(t) == t \in {":id"}

\* match.slice(1)
ParamName(t) == IF t = ":id" THEN "id" ELSE t

\* route.pattern.replace(/:\w+/g, "([^/]+)").replace(/\//g, "\\/")
RegexPath(pattern) ==
    [i \in 1..Len(pattern) |->
        IF IsParamToken(pattern[i])
        THEN [kind |-> "group", tok |-> ""]
        ELSE [kind |-> "lit", tok |-> pattern[i]]]

ParamNames(pattern) ==
    LET ps == SelectSeq(pattern, IsParamToken)
    IN  [i \in 1..Len(ps) |-> ParamName(ps[i])]

\* every way ^regex$ matches s, as the sequence of captured groups
RECURSIVE Captures(_, _)
Captures(rx, s) ==
    IF rx = <<>>
    THEN IF s = <<>> THEN {<<>>} ELSE {}
    ELSE IF Head(rx).kind = "lit"
    THEN IF s # <<>> /\ Head(s) = Head(rx).tok
         THEN Captures(Tail(rx), Tail(s))
         ELSE {}
    ELSE UNION { { <<SubSeq(s, 1, k)>> \o r :
                    r \in Captures(Tail(rx), SubSeq(s, k + 1, Len(s))) } :
                 k \in {k \in 1..Len(s) : \A i \in 1..k : s[i] # "/"} }

\* cleanPath.match(regex): null, or the captures of the greedy match
RegexMatch(rx, s) ==
    LET caps == Captures(rx, s)
    IN  IF caps = {} THEN Null
        ELSE CHOOSE m \in caps :
                \A n \in caps : m = <<>> \/ Len(m[1]) >= Len(n[1])

MatchRoute(route, cleanPath) ==
    LET m == RegexMatch(RegexPath(route.pattern), cleanPath)
        names == ParamNames(route.pattern)
    IN  IF m = Null THEN NullRoute
        ELSE [handler |-> route.handler,
              params |-> [n \in {names[i] : i \in 1..Len(names)} |->
                            m[CHOOSE i \in 1..Len(names) : names[i] = n]]]

CleanPath(url, baseUrl) ==
    OrSlash(StripTrailingSlash(ReplaceFirst(SplitQuery(url), baseUrl)))

findRoute(url, baseUrl) ==
    LET cleanPath == CleanPath(url, baseUrl)
        hits == {i \in 1..Len(routes) : MatchRoute(routes[i], cleanPath) # NullRoute}
    IN  IF hits = {}
        THEN [handler |-> "NotFoundPage", params |-> NoParams]
        ELSE MatchRoute(routes[CHOOSE i \in hits : \A j \in hits : i <= j],
                        cleanPath)

HasId(params) == "id" \in DOMAIN params

(***************************************************************************)
(* Stores and router: module-level singletons imported by main-server      *)
(***************************************************************************)
NoProduct == [productId |-> "", category2 |-> ""]

initialProductState ==
    [products |-> <<>>, totalCount |-> 0, categories |-> <<>>,
     currentProduct |-> NoProduct, relatedProducts |-> <<>>,
     loading |-> TRUE, error |-> Null, status |-> "idle"]

initialCartState == [items |-> <<>>]
initialUiState == [cartModalOpen |-> FALSE, toastVisible |-> FALSE]
initialRouter == [path |-> <<>>, query |-> <<>>, params |-> NoParams]

\* productStore.dispatch(action)
productReducer(state, action) ==
    CASE action.type = "SETUP" ->
            [f \in DOMAIN state |->
                IF f \in DOMAIN action.payload THEN action.payload[f] ELSE state[f]]
      [] action.type = "SET_CURRENT_PRODUCT" ->
            [state EXCEPT !.currentProduct = action.payload, !.loading = FALSE,
                          !.error = Null, !.status = "done"]
      [] action.type = "SET_RELATED_PRODUCTS" ->
            [state EXCEPT !.relatedProducts = action.payload, !.status = "done"]
      [] action.type = "SET_ERROR" ->
            [state EXCEPT !.error = action.payload, !.loading = FALSE,
                          !.status = "done"]
      [] OTHER -> state

\* cartStore.dispatch({type: CLEAR_CART})
cartReducer(state, type) ==
    IF type = "CLEAR_CART" THEN [state EXCEPT !.items = <<>>] ELSE state

\* uiStore.dispatch({type: CLOSE_CART_MODAL | HIDE_TOAST})
uiReducer(state, type) ==
    CASE type = "CLOSE_CART_MODAL" -> [state EXCEPT !.cartModalOpen = FALSE]
      [] type = "HIDE_TOAST" -> [state EXCEPT !.toastVisible = FALSE]
      [] OTHER -> state

\* router.setServerRoute(cleanUrl, query, params)
setServerRoute(cleanUrl, query, params) ==
    [path |-> cleanUrl, query |-> query, params |-> params]

\* everything a page handler reads
View(ps, cs, us, rt) == [product |-> ps, cart |-> cs, ui |-> us, router |-> rt]

InitialView ==
    View(initialProductState, initialCartState, initialUiState, initialRouter)

\* a world: the four singletons a render call reads and writes
ApplyDispatches(world, actions) ==
    LET F[i \in 0..Len(actions)] ==
            IF i = 0 THEN world.product ELSE productReducer(F[i - 1], actions[i])
    IN  [world EXCEPT !.product = F[Len(actions)]]

\* the dispatches of initializeStores
SetupInitial ==
    [type |-> "SETUP",
     payload |-> [f \in DOMAIN initialProductState |->
                    IF f = "loading" THEN TRUE
                    ELSE IF f = "status" THEN "pending"
                    ELSE initialProductState[f]]]

initializeStores(world) ==
    [ApplyDispatches(world, <<SetupInitial>>) EXCEPT
        !.cart = cartReducer(@, "CLEAR_CART"),
        !.ui = uiReducer(uiReducer(@, "CLOSE_CART_MODAL"), "HIDE_TOAST")]

(***************************************************************************)
(* Pages and the product API: collaborators outside main-server            *)
(***************************************************************************)
\* the string a page handler returns: a function of what it reads
Html(page, view) == [page |-> page, view |-> view]
EmptyString == Html("", InitialView)
UndefinedText == Html(Undefined, InitialView)

\* what a page handler call can do
PageOutcomes == {"html", "falsy", "throws"}

\* getProducts / getCategories / getProduct responses
ApiProducts == << [productId |-> "1", category2 |-> "c"],
                  [productId |-> "2", category2 |-> "c"] >>
ApiCategories == <<"c">>
ApiErrorMessage == "fetch failed"
StoreErrorMessage == "dispatch failed"

\* getProduct(productId): product "1" has a category2, the others have none
ProductResponse(productId) ==
    [productId |-> productId, category2 |-> IF productId = "1" THEN "c" ELSE ""]

\* the environment injects n more failures
Fail(n) ==
    /\ failures + n <= MaxFailures
    /\ failures' = failures + n

Cost(b) == IF b THEN 1 ELSE 0

(***************************************************************************)
(* render                                                                  *)
(***************************************************************************)
Calls == 1..NumCalls

\* BASE_URL of main-server (constants.js)
BASE_URL == <<>>

\* what router / store calls can be made to throw, per render call
Faults == {"none", "setServerRoute", "initializeStores", "dispatch"}

IdleCall ==
    [pc |-> "idle", url |-> <<>>, query |-> <<>>, route |-> NullRoute,
     fault |-> "none", trace |-> <<>>, api |-> <<>>, dispatched |-> <<>>,
     own |-> InitialView, result |-> EmptyString, error |-> Null,
     logged |-> <<>>]

World == View(productStore, cartStore, uiStore, router)

\* a catch block that logs and rethrows
RenderCatchRethrows(cl, world, error, nfThrows) ==
    [cl EXCEPT !.logged = Append(@, error), !.pc = "rejected", !.error = error]

\* the catch block of render: console.error, then return NotFoundPage()
RenderCatch(cl, world, error, nfThrows) ==
    [cl EXCEPT !.logged = Append(@, error),
               !.trace = Append(@, "NotFoundPage"),
               !.pc = IF nfThrows THEN "rejected" ELSE "resolved",
               !.result = IF nfThrows THEN EmptyString
                          ELSE Html("NotFoundPage", world),
               !.error = IF nfThrows THEN "NotFoundPage threw" ELSE Null]

\* render with the stores reset before the route is matched
RenderSyncResetFirst(cl, world, url, query, fault, nfThrows) ==
    LET cleanUrl == OrSlash(StripTrailingSlash(ReplaceFirst(url, BASE_URL)))
        route == findRoute(cleanUrl, BASE_URL)
        w1 == initializeStores(world)
        w2 == [w1 EXCEPT !.router = setServerRoute(cleanUrl, query, route.params)]
        o2 == [initializeStores(cl.own) EXCEPT
                 !.router = setServerRoute(cleanUrl, query, route.params)]
    IN  [call |-> [cl EXCEPT !.url = url, !.query = query, !.fault = fault,
                             !.route = route, !.own = o2,
                             !.trace = <<"initializeStores", "findRoute",
                                         "setServerRoute", "prefetch">>,
                             !.dispatched = <<SetupInitial>>,
                             !.pc = IF HasId(route.params) THEN "awaitProduct"
                                    ELSE "awaitList"],
         world |-> w2]

\* render(url, query) up to its first await.  Yields the call and the world.
RenderSync(cl, world, url, query, fault, nfThrows) ==
    LET cleanUrl == OrSlash(StripTrailingSlash(ReplaceFirst(url, BASE_URL)))
        route == findRoute(cleanUrl, BASE_URL)
        c0 == [cl EXCEPT !.url = url, !.query = query, !.fault = fault,
                         !.route = route, !.trace = <<"findRoute">>]
        w1 == [world EXCEPT !.router = setServerRoute(cleanUrl, query, route.params)]
        c1 == [c0 EXCEPT !.trace = Append(@, "setServerRoute"),
                         !.own = [@ EXCEPT !.router = w1.router]]
        w2 == initializeStores(w1)
        c2 == [c1 EXCEPT !.trace = Append(@, "initializeStores"),
                         !.dispatched = <<SetupInitial>>,
                         !.own = initializeStores(@)]
    IN  IF fault = "setServerRoute"
        THEN [call |-> RenderCatch(c0, world, "setServerRoute threw", nfThrows),
              world |-> world]
        ELSE IF fault = "initializeStores"
        THEN [call |-> RenderCatch(c1, w1, StoreErrorMessage, nfThrows),
              world |-> w1]
        ELSE [call |-> [c2 EXCEPT !.trace = Append(@, "prefetch"),
                                  !.pc = IF HasId(route.params) THEN "awaitProduct"
                                         ELSE "awaitList"],
              world |-> w2]

\* a dispatch made inside a prefetch function, by call cl
Dispatched(cl, world, actions) ==
    [call |-> [cl EXCEPT !.dispatched = @ \o actions,
                         !.own = ApplyDispatches(@, actions)],
     world |-> ApplyDispatches(world, actions)]

SetError(message) == [type |-> "SET_ERROR", payload |-> message]

\* an async prefetch function returns: its promise is fulfilled
PrefetchReturns(r) ==
    IF r.call.pc = "prefetched"
    THEN [r EXCEPT !.call.trace = Append(@, "prefetched")]
    ELSE r

\* prefetchProducts without its catch block
prefetchProductsNoCatch(cl, world, ok) ==
    IF ok
    THEN LET r == Dispatched(cl, world,
                    << [type |-> "SETUP",
                        payload |-> [products |-> ApiProducts,
                                     categories |-> ApiCategories,
                                     totalCount |-> Len(ApiProducts),
                                     loading |-> FALSE,
                                     status |-> "done",
                                     error |-> Null]] >>)
         IN  PrefetchReturns([r EXCEPT !.call.pc = "prefetched",
                                       !.call.api = Append(@, "list:ok")])
    ELSE [call |-> [cl EXCEPT !.pc = "prefetchThrew", !.error = ApiErrorMessage,
                              !.api = Append(@, "list:fail")],
          world |-> world]

\* prefetchProducts, after Promise.all settles
prefetchProductsSettled(cl, world, ok) ==
    IF cl.fault = "dispatch"
    THEN [call |-> [cl EXCEPT !.pc = "prefetchThrew", !.error = StoreErrorMessage,
                              !.api = Append(@, IF ok THEN "list:ok" ELSE "list:fail")],
          world |-> world]
    ELSE LET r == Dispatched(cl, world,
                    IF ok
                    THEN << [type |-> "SETUP",
                             payload |-> [products |-> ApiProducts,
                                          categories |-> ApiCategories,
                                          totalCount |-> Len(ApiProducts),
                                          loading |-> FALSE,
                                          status |-> "done",
                                          error |-> Null]] >>
                    ELSE << SetError(ApiErrorMessage) >>)
         IN  PrefetchReturns(
                [r EXCEPT !.call.pc = "prefetched",
                          !.call.api = Append(@, IF ok THEN "list:ok" ELSE "list:fail")])

\* prefetchProductDetail after getProduct settles; product = NoProduct on failure
prefetchProductDetailSettled(cl, world, ok, product) ==
    IF cl.fault = "dispatch"
    THEN [call |-> [cl EXCEPT !.pc = "prefetchThrew", !.error = StoreErrorMessage,
                              !.api = Append(@, IF ok THEN "getProduct:ok"
                                                ELSE "getProduct:fail")],
          world |-> world]
    ELSE IF ~ok
    THEN LET r == Dispatched(cl, world, << SetError(ApiErrorMessage) >>)
         IN  PrefetchReturns([r EXCEPT !.call.pc = "prefetched",
                                       !.call.api = Append(@, "getProduct:fail")])
    ELSE LET r == Dispatched(cl, world,
                    << [type |-> "SET_CURRENT_PRODUCT", payload |-> product] >>)
         IN  PrefetchReturns(
                [r EXCEPT !.call.pc = IF product.category2 # "" THEN "awaitRelated"
                                      ELSE "prefetched",
                          !.call.api = Append(@, "getProduct:ok")])

\* relatedResponse.products.filter((p) => p.productId !== productId)
ExcludeProduct(products, productId) ==
    LET Keep(p) == p.productId # productId IN SelectSeq(products, Keep)

\* the inner try of prefetchProductDetail, after getProducts settles
relatedSettled(cl, world, ok) ==
    LET r == Dispatched(cl, world,
                << [type |-> "SET_RELATED_PRODUCTS",
                    payload |-> IF ok
                                THEN ExcludeProduct(ApiProducts, cl.route.params["id"][1])
                                ELSE <<>>] >>)
    IN  PrefetchReturns(
            [r EXCEPT !.call.pc = "prefetched",
                      !.call.api = Append(@, IF ok THEN "related:ok" ELSE "related:fail")])

\* render after `await prefetch...`: route.handler(), html || "", or the catch
RenderResumed(cl, world, outcome, nfThrows) ==
    IF cl.pc = "prefetchThrew"
    THEN RenderCatch([cl EXCEPT !.error = Null], world, cl.error, nfThrows)
    ELSE LET c1 == [cl EXCEPT !.trace = Append(@, "handler")]
         IN  CASE outcome = "html" ->
                    [c1 EXCEPT !.pc = "resolved",
                               !.result = Html(cl.route.handler, world)]
               [] outcome = "falsy" ->
                    [c1 EXCEPT !.pc = "resolved", !.result = EmptyString]
               [] OTHER ->
                    RenderCatch(c1, world, "handler threw",
                                nfThrows \/ cl.route.handler = "NotFoundPage")

\* the catch block runs, and its NotFoundPage() call is not a repetition of a
\* NotFoundPage() call that has just thrown
CatchCallsDefaultPage(cl, outcome) ==
    \/ cl.pc = "prefetchThrew"
    \/ outcome = "throws" /\ cl.route.handler # "NotFoundPage"

Settled(c) == call[c].pc \in {"resolved", "rejected"}

SetWorld(w) ==
    /\ productStore' = w.product
    /\ cartStore' = w.cart
    /\ uiStore' = w.ui
    /\ router' = w.router

ProductSettles(c) ==
    /\ call[c].pc = "awaitProduct"
    /\ \E ok \in BOOLEAN :
          LET product == IF ok THEN ProductResponse(call[c].route.params["id"][1])
                         ELSE NoProduct
              r == prefetchProductDetailSettled(call[c], World, ok, product)
          IN  /\ Fail(Cost(~ok))
              /\ call' = [call EXCEPT ![c] = r.call]
              /\ SetWorld(r.world)
    /\ UNCHANGED <<routeVars, responses, ssg, deployVars>>

RelatedSettles(c) ==
    /\ call[c].pc = "awaitRelated"
    /\ \E ok \in BOOLEAN :
          LET r == relatedSettled(call[c], World, ok)
          IN  /\ Fail(Cost(~ok))
              /\ call' = [call EXCEPT ![c] = r.call]
              /\ SetWorld(r.world)
    /\ UNCHANGED <<routeVars, responses, ssg, deployVars>>

ListSettles(c) ==
    /\ call[c].pc = "awaitList"
    /\ \E ok \in BOOLEAN :
          LET r == prefetchProductsSettled(call[c], World, ok)
          IN  /\ Fail(Cost(~ok))
              /\ call' = [call EXCEPT ![c] = r.call]
              /\ SetWorld(r.world)
    /\ UNCHANGED <<routeVars, responses, ssg, deployVars>>

RenderResume(c) ==
    /\ call[c].pc \in {"prefetched", "prefetchThrew"}
    /\ \E outcome \in PageOutcomes, nfThrows \in BOOLEAN :
          /\ call[c].pc = "prefetchThrew" => outcome = "html"
          /\ nfThrows => CatchCallsDefaultPage(call[c], outcome)
          /\ Fail(Cost(outcome # "html") + Cost(nfThrows))
          /\ call' = [call EXCEPT ![c] = RenderResumed(call[c], World, outcome, nfThrows)]
    /\ UNCHANGED <<routeVars, worldVars, responses, ssg, deployVars>>

RenderSteps ==
    \E c \in Calls :
        \/ ProductSettles(c)
        \/ RelatedSettles(c)
        \/ ListSettles(c)
        \/ RenderResume(c)

(***************************************************************************)
(* server.js: ssrMiddleware and errorMiddleware                            *)
(***************************************************************************)
\* base: "/" outside production
base == <<"/">>

\* s.replace(pat, rep): the first occurrence only
ReplaceFirstWith(s, pat, rep) ==
    IF pat # <<>> /\ \E i \in 1..Len(s) : OccursAt(s, pat, i)
    THEN LET i == CHOOSE i \in 1..Len(s) :
                      /\ OccursAt(s, pat, i)
                      /\ \A j \in 1..(i - 1) : ~OccursAt(s, pat, j)
         IN  SubSeq(s, 1, i - 1) \o rep \o SubSeq(s, i + Len(pat), Len(s))
    ELSE s

\* req.query: what follows the first "?" of the url
ParseQuery(url) ==
    IF \E i \in 1..Len(url) : url[i] = "?"
    THEN SubSeq(url, Len(SplitQuery(url)) + 2, Len(url))
    ELSE <<>>

OriginalUrls ==
    { <<"/">>, <<"/", "?", "x">>, <<"/", "product", "/", "1">>, <<"/", "x">> }

\* createHtmlTemplate(html, base, prod, assetFiles) of server.js, then res.send
HtmlResponse(html) ==
    [status |-> 200, contentType |-> "text/html", page |-> "template", root |-> html]

\* errorMiddleware: res.status(500).send(error page)
errorMiddleware(err) ==
    [status |-> 500, contentType |-> "text/html", page |-> "error", root |-> EmptyString]

\* ssrMiddleware up to `await render(url, query)`
Request(c) ==
    /\ call[c].pc = "idle"
    /\ \A d \in Calls : d < c => call[d].pc # "idle"
    /\ \E originalUrl \in OriginalUrls, fault \in Faults, nfThrows \in BOOLEAN :
          LET url == OrSlash(ReplaceFirstWith(originalUrl, base, <<"/">>))
              r == RenderSync(call[c], World, url, ParseQuery(originalUrl),
                              fault, nfThrows)
          IN  /\ nfThrows => fault \in {"setServerRoute", "initializeStores"}
              /\ Fail(Cost(fault # "none") + Cost(nfThrows))
              /\ call' = [call EXCEPT ![c] = r.call]
              /\ SetWorld(r.world)
    /\ UNCHANGED <<routeVars, responses, ssg, deployVars>>

\* ssrMiddleware without its catch block
ssrMiddlewareNoCatch(cl) == HtmlResponse(cl.result)

\* ssrMiddleware after `await render(url, query)`
ssrMiddlewareResumed(cl) ==
    IF cl.pc = "resolved" THEN HtmlResponse(cl.result) ELSE errorMiddleware(cl.error)

MiddlewareResume(c) ==
    /\ call[c].pc \in {"resolved", "rejected"}
    /\ responses' = [responses EXCEPT ![c] = Append(@, ssrMiddlewareResumed(call[c]))]
    /\ call' = [call EXCEPT ![c] = [IdleCall EXCEPT !.pc = "responded"]]
    /\ UNCHANGED <<routeVars, worldVars, ssg, deployVars, failures>>

IdleRoute == frUrl = <<>> /\ frBase = <<>> /\ frResult = NullRoute

InitStores ==
    /\ productStore = initialProductState
    /\ cartStore = initialCartState
    /\ uiStore = initialUiState
    /\ router = initialRouter
    /\ call = [c \in Calls |-> IdleCall]
    /\ responses = [c \in Calls |-> <<>>]
    /\ failures = 0

InitServer ==
    /\ IdleRoute
    /\ InitStores
    /\ ssg = Null /\ fs = <<>> /\ dep = Null

NextServer ==
    \/ \E c \in Calls : Request(c)
    \/ RenderSteps
    \/ \E c \in Calls : MiddlewareResume(c)

\* requests that overlap in time
SpecServer == InitServer /\ [][NextServer]_vars

\* a request that arrives when no other request is being served
RequestAlone(c) ==
    /\ \A d \in Calls : call[d].pc \in {"idle", "responded"}
    /\ Request(c)

NextRender ==
    \/ \E c \in Calls : RequestAlone(c)
    \/ RenderSteps
    \/ \E c \in Calls : MiddlewareResume(c)

\* requests served one at a time
SpecRender == InitServer /\ [][NextRender]_vars

\* every awaited promise settles and every continuation is run
FairSpecRender ==
    /\ SpecRender
    /\ \A c \in Calls : WF_vars(ProductSettles(c) \/ RelatedSettles(c)
                                \/ ListSettles(c) \/ RenderResume(c)
                                \/ MiddlewareResume(c))

(***************************************************************************)
(* static-site-generate.js                                                 *)
(***************************************************************************)
\* const BASE_URL = "" of static-site-generate.js
ssgBaseUrl == <<>>

ProductIdValues == {"1", "2"}

HomeUrl == ssgBaseUrl \o <<"/">>
ProductUrl(productId) == ssgBaseUrl \o <<"/", "product", "/", productId>>
NotFoundUrl == ssgBaseUrl \o <<"/", "not-found-page">>

\* const { html, initialData } = <what render resolved with>: render resolves
\* with a string, and a string has neither property
Destructure(rendered) == [html |-> Undefined, initialData |-> Undefined]

\* the text String.prototype.replace puts in for a replacement value
ToText(value) == IF value = Undefined THEN UndefinedText ELSE value

\* createHtmlTemplate(html, initialData) of static-site-generate.js
ssgCreateHtmlTemplate(html, initialData) ==
    [appHtml |-> ToText(html), appHead |-> "",
     initialDataScript |-> initialData # Undefined]

InitialSsg ==
    [pc |-> "start", productIds |-> <<>>, idx |-> 0,
     successCount |-> 0, failCount |-> 0,
     rendered |-> <<>>, written |-> <<>>, logged |-> 0]

\* one try block of generateStaticSite after `await render(url, {})`:
\* destructure, createHtmlTemplate, writeFileSync.  TRUE when it ran through.
PageWritten(cl, fsThrows) == cl.pc = "resolved" /\ ~fsThrows

WritePage(st, file, cl, fsThrows) ==
    IF PageWritten(cl, fsThrows)
    THEN LET d == Destructure(cl.result)
         IN  [st EXCEPT !.written =
                Append(@, [file |-> file,
                           template |-> ssgCreateHtmlTemplate(d.html, d.initialData),
                           returned |-> cl.result])]
    ELSE [st EXCEPT !.logged = @ + 1]

\* a loop that stops at the first product that fails
ssgAfterProductStopOnFailure(st, cl, fsThrows) ==
    LET w == WritePage(st, <<"product", st.productIds[st.idx], "index.html">>,
                       cl, fsThrows)
    IN  IF PageWritten(cl, fsThrows)
        THEN [w EXCEPT !.successCount = @ + 1]
        ELSE [w EXCEPT !.failCount = @ + 1, !.idx = Len(st.productIds)]

\* the body of the for loop of generateStaticSite after `await render(url, {})`
ssgAfterProduct(st, cl, fsThrows) ==
    LET w == WritePage(st, <<"product", st.productIds[st.idx], "index.html">>,
                       cl, fsThrows)
    IN  IF PageWritten(cl, fsThrows)
        THEN [w EXCEPT !.successCount = @ + 1]
        ELSE [w EXCEPT !.failCount = @ + 1]

\* generateStaticSite resumes after an `await render(...)`: the try block it
\* is in runs to its end (or to its catch), then render(url, {}) is called for
\* the next page and `await` is reached again
SsgCallRender(st, url, pc) ==
    \E fault \in Faults, nfThrows \in BOOLEAN :
        LET r == RenderSync(IdleCall, World, url, <<>>, fault, nfThrows)
        IN  /\ nfThrows => fault \in {"setServerRoute", "initializeStores"}
            /\ \E fsThrows \in BOOLEAN :
                  /\ fsThrows => (st.rendered # <<>> /\ call[1].pc = "resolved")
                  /\ Fail(Cost(fault # "none") + Cost(nfThrows) + Cost(fsThrows))
                  /\ ssg' = [(IF st.pc = "start" THEN st
                              ELSE IF st.pc = "product"
                              THEN ssgAfterProduct(st, call[1], fsThrows)
                              ELSE WritePage(st, <<"index.html">>, call[1], fsThrows))
                             EXCEPT !.pc = pc,
                                    !.rendered = Append(@, url),
                                    !.idx = IF pc = "product" THEN @ + 1 ELSE @]
            /\ call' = [call EXCEPT ![1] = r.call]
            /\ SetWorld(r.world)

\* the build checks pass and the home page is rendered
SsgStart ==
    /\ ssg.pc = "start"
    /\ SsgCallRender(ssg, HomeUrl, "home")
    /\ UNCHANGED <<routeVars, responses, deployVars>>

\* a build directory is missing: process.exit(1)
SsgExit ==
    /\ ssg.pc = "start"
    /\ ssg' = [ssg EXCEPT !.pc = "exited"]
    /\ UNCHANGED <<routeVars, worldVars, call, responses, deployVars, failures>>

\* the home page's try block ends, getAllProductIds answers, the loop starts
SsgHomeDone ==
    /\ ssg.pc = "home"
    /\ Settled(1)
    /\ \E ids \in SeqsUpTo(ProductIdValues, MaxIds) :
          LET st == [ssg EXCEPT !.productIds = ids]
          IN  IF ids = <<>>
              THEN SsgCallRender(st, NotFoundUrl, "notFound")
              ELSE SsgCallRender(st, ProductUrl(ids[1]), "product")
    /\ UNCHANGED <<routeVars, responses, deployVars>>

\* one iteration of the loop ends; the next one, or the 404 page, starts
SsgProductDone ==
    /\ ssg.pc = "product"
    /\ Settled(1)
    /\ IF ssg.idx < Len(ssg.productIds)
       THEN SsgCallRender(ssg, ProductUrl(ssg.productIds[ssg.idx + 1]), "product")
       ELSE SsgCallRender(ssg, NotFoundUrl, "notFound")
    /\ UNCHANGED <<routeVars, responses, deployVars>>

\* the 404 page's try block ends
SsgNotFoundDone ==
    /\ ssg.pc = "notFound"
    /\ Settled(1)
    /\ \E fsThrows \in BOOLEAN :
          /\ fsThrows => call[1].pc = "resolved"
          /\ Fail(Cost(fsThrows))
          /\ ssg' = [WritePage(ssg, <<"404.html">>, call[1], fsThrows)
                        EXCEPT !.pc = "done"]
    /\ call' = [call EXCEPT ![1] = [IdleCall EXCEPT !.pc = "responded"]]
    /\ UNCHANGED <<routeVars, worldVars, responses, deployVars>>

InitSsg ==
    /\ IdleRoute
    /\ InitStores
    /\ ssg = InitialSsg
    /\ fs = <<>> /\ dep = Null

NextSsg ==
    \/ SsgStart
    \/ SsgExit
    \/ SsgHomeDone
    \/ SsgProductDone
    \/ SsgNotFoundDone
    \/ RenderSteps

SpecSsg == InitSsg /\ [][NextSsg]_vars

(***************************************************************************)
(* deploy.js.  The file system maps each existing path (a sequence of      *)
(* names) to "dir" or to the content of a file; the root always exists.    *)
(***************************************************************************)
sourceDir == <<"dist", "vanilla">>
defaultDeployDir == <<"dist", "deploy", "vanilla">>

\* process.env.DEPLOY_DIR: unset (""), or a directory
DeployDirEnv ==
    {<<>>, <<"dist", "vanilla">>, <<"dist", "vanilla", "out">>, <<"dist">>}

\* readdirSync lists names in this order
SortedNames ==
    <<".deploy-info.json", "assets", "deploy", "dist", "index.html", "index.js",
      "old.html", "out", "vanilla">>

StartsWith(path, dir) ==
    Len(dir) <= Len(path) /\ \A i \in 1..Len(dir) : path[i] = dir[i]

existsSync(f, path) == path = <<>> \/ path \in DOMAIN f

\* fs.rmSync(path, {recursive: true, force: true})
rmSync(f, path) ==
    [q \in {q \in DOMAIN f : ~StartsWith(q, path)} |-> f[q]]

\* fs.mkdirSync(path, {recursive: true})
mkdirSync(f, path) ==
    [q \in DOMAIN f \cup {SubSeq(path, 1, n) : n \in 1..Len(path)} |->
        IF q \in DOMAIN f THEN f[q] ELSE "dir"]

\* fs.readdirSync(dir, {withFileTypes: true})
readdirSync(f, dir) ==
    LET IsEntry(name) == Append(dir, name) \in DOMAIN f
    IN  SelectSeq(SortedNames, IsEntry)

\* fs.copyFileSync(src, dest) and fs.writeFileSync(dest, content)
writeFileSync(f, dest, content) ==
    [q \in DOMAIN f \cup {dest} |-> IF q = dest THEN content ELSE f[q]]

copyFileSync(f, src, dest) == writeFileSync(f, dest, f[src])

\* copyDirectory(src, dest): the file system afterwards, and whether it ran
\* through (a path longer than the system allows, or a directory that is not
\* there, makes the fs call throw)
RECURSIVE copyDirectory(_, _, _)
RECURSIVE CopyEntries(_, _, _, _)
copyDirectory(f, src, dest) ==
    IF ~existsSync(f, src)
    THEN [fs |-> f, ok |-> FALSE]
    ELSE CopyEntries(f, src, dest, readdirSync(f, src))

CopyEntries(f, src, dest, entries) ==
    IF entries = <<>>
    THEN [fs |-> f, ok |-> TRUE]
    ELSE LET srcPath == Append(src, Head(entries))
             destPath == Append(dest, Head(entries))
         IN  IF Len(destPath) > MaxPathLen
             THEN [fs |-> f, ok |-> FALSE]
             ELSE IF f[srcPath] = "dir"
             THEN LET r == copyDirectory(mkdirSync(f, destPath), srcPath, destPath)
                  IN  IF r.ok THEN CopyEntries(r.fs, src, dest, Tail(entries))
                      ELSE r
             ELSE CopyEntries(copyFileSync(f, srcPath, destPath), src, dest,
                              Tail(entries))

\* countFiles(dir)
countFiles(f, dir) ==
    Cardinality({q \in DOMAIN f : StartsWith(q, dir) /\ q # dir /\ f[q] # "dir"})

NoDeployInfo == [files |-> -1, source |-> <<>>, destination |-> <<>>]

\* the source directory as the build leaves it
SourceTrees ==
    LET index == (sourceDir \o <<"index.html">>) :> "home"
        assets == (sourceDir \o <<"assets">>) :> "dir"
        js == (sourceDir \o <<"assets", "index.js">>) :> "bundle"
        dirs == (<<"dist">> :> "dir") @@ (sourceDir :> "dir")
    IN  {dirs, dirs @@ index, dirs @@ assets, dirs @@ index @@ assets,
         dirs @@ assets @@ js, dirs @@ index @@ assets @@ js}

\* what a previous run may have left in the deploy directory
Leftovers(dir) ==
    {<<>>,
     dir :> "dir",
     (dir :> "dir") @@ (Append(dir, "old.html") :> "old")
                    @@ (Append(dir, "index.html") :> "old")}

InitDeploy ==
    /\ IdleRoute
    /\ InitStores
    /\ ssg = Null
    /\ \E env \in DeployDirEnv, tree \in SourceTrees \cup {<<>>} :
          LET deployDir == IF env # <<>> THEN env ELSE defaultDeployDir
          IN  \E left \in Leftovers(deployDir) :
                /\ fs = tree @@ mkdirSync(left, SubSeq(deployDir, 1, Len(deployDir) - 1))
                /\ dep = [pc |-> "start", deployDir |-> deployDir,
                          deployInfo |-> NoDeployInfo, fs0 |-> fs]

\* if (!fs.existsSync(sourceDir)) process.exit(1)
DeployCheck ==
    /\ dep.pc = "start"
    /\ dep' = [dep EXCEPT !.pc = IF existsSync(fs, sourceDir) THEN "clean"
                                 ELSE "exit1"]
    /\ UNCHANGED <<routeVars, worldVars, call, responses, ssg, fs, failures>>

\* rmSync of an existing deploy directory, then mkdirSync
DeployClean ==
    /\ dep.pc = "clean"
    /\ fs' = mkdirSync(IF existsSync(fs, dep.deployDir) THEN rmSync(fs, dep.deployDir)
                       ELSE fs,
                       dep.deployDir)
    /\ dep' = [dep EXCEPT !.pc = "copy"]
    /\ UNCHANGED <<routeVars, worldVars, call, responses, ssg, failures>>

\* copyDirectory(sourceDir, deployDir); a throw reaches deploy().catch
DeployCopy ==
    /\ dep.pc = "copy"
    /\ LET r == copyDirectory(fs, sourceDir, dep.deployDir)
       IN  /\ fs' = r.fs
           /\ dep' = [dep EXCEPT !.pc = IF r.ok THEN "info" ELSE "exit1"]
    /\ UNCHANGED <<routeVars, worldVars, call, responses, ssg, failures>>

\* deployInfo is built and .deploy-info.json is written
DeployWriteInfo ==
    /\ dep.pc = "info"
    /\ dep' = [dep EXCEPT !.pc = "done",
                          !.deployInfo = [files |-> countFiles(fs, dep.deployDir),
                                          source |-> sourceDir,
                                          destination |-> dep.deployDir]]
    /\ fs' = writeFileSync(fs, Append(dep.deployDir, ".deploy-info.json"), "info")
    /\ UNCHANGED <<routeVars, worldVars, call, responses, ssg, failures>>

NextDeploy ==
    \/ DeployCheck
    \/ DeployClean
    \/ DeployCopy
    \/ DeployWriteInfo

SpecDeploy == InitDeploy /\ [][NextDeploy]_vars

(***************************************************************************)
(* Specification of findRoute alone: any url, two base urls                *)
(***************************************************************************)
BaseUrls == {<<>>, <<"/", "x">>}

IdleRest ==
    /\ InitStores
    /\ ssg = Null /\ fs = <<>> /\ dep = Null

InitRoute ==
    /\ frUrl \in SeqsUpTo(Tokens, MaxUrlLen)
    /\ frBase \in BaseUrls
    /\ frResult = NullRoute
    /\ IdleRest

CallFindRoute ==
    /\ frResult = NullRoute
    /\ frResult' = findRoute(frUrl, frBase)
    /\ UNCHANGED <<frUrl, frBase, worldVars, call, responses, ssg, deployVars,
                   failures>>

NextRoute == CallFindRoute

SpecRoute == InitRoute /\ [][NextRoute]_vars

(***************************************************************************)
(* C3                                                                      *)
(***************************************************************************)
\* the path the claim speaks of: query string, base url and one trailing
\* slash removed, the empty path read as "/"
ClaimPath(url, baseUrl) ==
    LET q == {i \in 1..Len(url) : url[i] = "?"}
        n == IF q = {} THEN Len(url)
             ELSE (CHOOSE i \in q : \A j \in q : i <= j) - 1
        p == [i \in 1..n |-> url[i]]
        at == {i \in 1..n : baseUrl # <<>> /\ i + Len(baseUrl) - 1 <= n
                             /\ \A k \in 1..Len(baseUrl) : p[i + k - 1] = baseUrl[k]}
        b == IF at = {} THEN p
             ELSE LET i == CHOOSE i \in at : \A j \in at : i <= j
                  IN  [k \in 1..(n - Len(baseUrl)) |->
                          IF k < i THEN p[k] ELSE p[k + Len(baseUrl)]]
        t == IF Len(b) > 0 /\ b[Len(b)] = "/"
             THEN [k \in 1..(Len(b) - 1) |-> b[k]] ELSE b
    IN  IF Len(t) = 0 THEN <<"/">> ELSE t

IsProductPath(p) ==
    /\ Len(p) >= 4
    /\ p[1] = "/" /\ p[2] = "product" /\ p[3] = "/"
    /\ \A i \in 4..Len(p) : p[i] # "/"

\* C3: findRoute yields HomePage with empty params for the path "/",
\* ProductDetailPage with params.id = <seg> for "/product/<seg>" (one
\* non-empty segment without "/"), and NotFoundPage with empty params for
\* every other path.
C3_FindRoute ==
    frResult # NullRoute =>
        LET p == ClaimPath(frUrl, frBase)
        IN  /\ p = <<"/">> =>
                frResult = [handler |-> "HomePage", params |-> NoParams]
            /\ IsProductPath(p) =>
                /\ frResult.handler = "ProductDetailPage"
                /\ DOMAIN frResult.params = {"id"}
                /\ frResult.params["id"] = SubSeq(p, 4, Len(p))
            /\ (p # <<"/">> /\ ~IsProductPath(p)) =>
                frResult = [handler |-> "NotFoundPage", params |-> NoParams]

\* a product url with a query string and a trailing slash has been routed
C3_Witness ==
    /\ frResult # NullRoute
    /\ frResult.handler = "ProductDetailPage"
    /\ frUrl = <<"/", "product", "/", "1", "/">>

(***************************************************************************)
(* Claims about render and the server                                      *)
(***************************************************************************)
Has(seq, x) == \E i \in 1..Len(seq) : seq[i] = x
IndexOf(seq, x) == CHOOSE i \in 1..Len(seq) : seq[i] = x

IsPrefix(s, t) == Len(s) <= Len(t) /\ \A i \in 1..Len(s) : s[i] = t[i]

\* C1: the state a call's page handler reads is exactly the state that call
\* alone produced (its setServerRoute, initializeStores and prefetch), whatever
\* other render calls do in the meantime.
C1_RequestIsolation ==
    \A c \in Calls :
        (call[c].pc = "resolved" /\ Has(call[c].trace, "handler")
                                 /\ call[c].result.page # "") =>
            call[c].result.view = call[c].own

\* C2 as stated: stores are reset, then the route is matched, then the data
\* is fetched, then the page handler is invoked.
C2_ResetBeforeMatch ==
    \A c \in Calls :
        (Has(call[c].trace, "initializeStores") /\ Has(call[c].trace, "findRoute")) =>
            IndexOf(call[c].trace, "initializeStores") < IndexOf(call[c].trace, "findRoute")

RenderOrder ==
    <<"findRoute", "setServerRoute", "initializeStores", "prefetch",
      "prefetched", "handler">>

WithoutDefaultPage(trace) ==
    IF trace # <<>> /\ trace[Len(trace)] = "NotFoundPage"
    THEN SubSeq(trace, 1, Len(trace) - 1) ELSE trace

\* C2 amended: within each render call the route is matched, then the router
\* is set, then the stores are reset, then the data is fetched, then the
\* route's handler is invoked; the route's handler is never invoked before
\* that call's reset and prefetch have completed.
C2_RenderOrder ==
    \A c \in Calls :
        /\ IsPrefix(WithoutDefaultPage(call[c].trace), RenderOrder)
        /\ Has(call[c].trace, "handler") =>
              /\ Has(call[c].trace, "initializeStores")
              /\ Has(call[c].trace, "prefetched")
              /\ IndexOf(call[c].trace, "initializeStores")
                    < IndexOf(call[c].trace, "handler")
              /\ IndexOf(call[c].trace, "prefetched")
                    < IndexOf(call[c].trace, "handler")

\* a call whose handler has been invoked after its reset and its prefetch
C2_Witness ==
    \E c \in Calls : call[c].pc = "resolved" /\ call[c].trace = RenderOrder

\* C4 as stated: render never rejects.
C4_NeverRejects == \A c \in Calls : call[c].pc # "rejected"

\* C4 amended: render rejects only when the NotFoundPage() call of its catch
\* block throws.  Otherwise, whenever setServerRoute, store initialization,
\* prefetching or the route's handler throws, render logs the error once and
\* resolves with the output of NotFoundPage; when nothing throws it resolves
\* with the handler's HTML, or the empty string for a falsy value.
C4_CatchAndDefaultPage ==
    \A c \in Calls :
        LET cl == call[c]
            caught == Len(cl.logged) = 1
                      /\ cl.trace # <<>> /\ cl.trace[Len(cl.trace)] = "NotFoundPage"
        IN  /\ cl.pc = "rejected" => caught /\ cl.error = "NotFoundPage threw"
            /\ cl.pc = "resolved" =>
                  \/ caught /\ cl.result.page = "NotFoundPage"
                  \/ /\ cl.logged = <<>> /\ cl.fault = "none"
                     /\ cl.trace = RenderOrder
                     /\ cl.result.page \in {cl.route.handler, ""}
            /\ (Settled(c) /\ cl.fault # "none") => caught

\* a product page whose handler threw, answered with the default page
C4_Witness ==
    \E c \in Calls :
        /\ call[c].pc = "resolved"
        /\ call[c].route.handler = "ProductDetailPage"
        /\ Has(call[c].trace, "handler")
        /\ call[c].logged = <<"handler threw">>
        /\ call[c].result.page = "NotFoundPage"

IsResponseOf(cl, response) ==
    \/ /\ cl.pc = "resolved"
       /\ response = [status |-> 200, contentType |-> "text/html",
                      page |-> "template", root |-> cl.result]
    \/ /\ cl.pc = "rejected"
       /\ response.status = 500 /\ response.page = "error"

\* C8: every request that reaches ssrMiddleware eventually receives exactly
\* one response: the template with render's output in the root element and
\* Content-Type text/html, or the status-500 error page when render threw;
\* never both and never none.
C8_ExactlyOneResponse ==
    /\ [](\A c \in Calls : Len(responses[c]) <= 1)
    /\ [][\A c \in Calls :
            responses'[c] # responses[c] =>
                /\ responses[c] = <<>>
                /\ Len(responses'[c]) = 1
                /\ IsResponseOf(call[c], responses'[c][1])]_vars
    /\ \A c \in Calls : (call[c].pc # "idle") ~> (Len(responses[c]) = 1)

\* one request answered with the error page, the next with the template
C8_Witness ==
    /\ Len(responses[1]) = 1 /\ responses[1][1].status = 500
    /\ Len(responses[2]) = 1 /\ responses[2][1].status = 200
    /\ responses[2][1].root.page = "ProductDetailPage"

LastDispatch(cl) == cl.dispatched[Len(cl.dispatched)]

NoErrorDispatched(cl) ==
    \A i \in 1..Len(cl.dispatched) : cl.dispatched[i].type # "SET_ERROR"

\* C9: a failed API call never escapes the prefetch function (what a prefetch
\* throws is never the API error, only the error of a throwing store): a failed list
\* or detail fetch dispatches SET_ERROR with the error message, a failed
\* related-products fetch dispatches SET_RELATED_PRODUCTS with the empty list,
\* sets no error and leaves the current product set; in each case render
\* still invokes the matched route's handler.
C9_PrefetchFailureContained ==
    \A c \in Calls :
        LET cl == call[c]
            failed == {"list:fail", "getProduct:fail", "related:fail"}
        IN  /\ cl.pc = "prefetchThrew" =>
                cl.fault = "dispatch" /\ cl.error = StoreErrorMessage
            /\ (cl.fault = "none" /\ \E e \in failed : Has(cl.api, e)) =>
                  /\ cl.pc \in {"prefetched", "resolved", "rejected"}
                  /\ (Has(cl.api, "list:fail") \/ Has(cl.api, "getProduct:fail")) =>
                        /\ LastDispatch(cl).type = "SET_ERROR"
                        /\ LastDispatch(cl).payload = ApiErrorMessage
                  /\ Has(cl.api, "related:fail") =>
                        /\ LastDispatch(cl).type = "SET_RELATED_PRODUCTS"
                        /\ LastDispatch(cl).payload = <<>>
                        /\ NoErrorDispatched(cl)
                        /\ cl.dispatched[Len(cl.dispatched) - 1] =
                              [type |-> "SET_CURRENT_PRODUCT",
                               payload |-> ProductResponse(cl.route.params["id"][1])]
                  /\ Settled(c) => Has(cl.trace, "handler")

\* the related-products fetch failed and the product page was still rendered
C9_Witness ==
    \E c \in Calls :
        /\ call[c].pc = "resolved"
        /\ Has(call[c].api, "related:fail")
        /\ call[c].result.page = "ProductDetailPage"
        /\ call[c].result.view.product.currentProduct.productId = "1"
        /\ call[c].result.view.product.error = Null


(***************************************************************************)
(* Claims about generateStaticSite                                         *)
(***************************************************************************)
ExpectedRenders(ids) ==
    <<HomeUrl>> \o [i \in 1..Len(ids) |-> ProductUrl(ids[i])] \o <<NotFoundUrl>>

\* C5: generateStaticSite calls render once for every product id, in order,
\* a failure for one id does not stop the remaining ones: when the loop ends
\* successCount + failCount is the number of product ids, and the home page
\* and the 404 page are each attempted exactly once.
C5_EveryProductAttempted ==
    /\ ssg.pc \in {"notFound", "done"} =>
          /\ ssg.successCount + ssg.failCount = Len(ssg.productIds)
          /\ ssg.rendered = ExpectedRenders(ssg.productIds)
    /\ ssg.pc = "product" =>
          /\ ssg.successCount + ssg.failCount = ssg.idx - 1
          /\ ssg.rendered = SubSeq(ExpectedRenders(ssg.productIds), 1, ssg.idx + 1)
    /\ ssg.pc = "home" => ssg.rendered = <<HomeUrl>>

\* the first of two product pages failed and the second was still generated
C5_Witness ==
    /\ ssg.pc = "done"
    /\ ssg.productIds = <<"2", "1">>
    /\ ssg.failCount = 1 /\ ssg.successCount = 1
    /\ \E i \in 1..Len(ssg.written) :
          ssg.written[i].file = <<"product", "1", "index.html">>

\* C6: for every page the SSG driver writes, the text put in place of the
\* <!--app-html--> placeholder is the HTML render returned for that page.
C6_WrittenHtmlIsRendered ==
    \A i \in 1..Len(ssg.written) :
        ssg.written[i].template.appHtml = ssg.written[i].returned


(***************************************************************************)
(* Claims about deploy                                                     *)
(***************************************************************************)
\* what lies below dir, by relative path
Below(f, dir) ==
    LET rel == {SubSeq(q, Len(dir) + 1, Len(q)) :
                    q \in {q \in DOMAIN f : StartsWith(q, dir) /\ q # dir}}
    IN  [r \in rel |-> f[dir \o r]]

\* C7: when the source directory exists and deploy completes, the deploy
\* directory holds exactly a copy of every file and subdirectory of the
\* source directory plus .deploy-info.json, nothing it held before, and the
\* recorded files count is the number of files copied.
C7_DeployIsCopyOfSource ==
    dep.pc = "done" =>
        /\ Below(fs, dep.deployDir) =
              Below(dep.fs0, sourceDir) @@ (<<".deploy-info.json">> :> "info")
        /\ dep.deployInfo.files = countFiles(dep.fs0, sourceDir)

\* C10: a run of deploy deletes, creates and modifies nothing in the source
\* directory, whatever DEPLOY_DIR is, and when the source directory is
\* missing it exits with code 1 and leaves the deploy directory alone.
C10_SourceUnchanged ==
    /\ existsSync(dep.fs0, sourceDir) =>
          /\ existsSync(fs, sourceDir)
          /\ Below(fs, sourceDir) = Below(dep.fs0, sourceDir)
    /\ (~existsSync(dep.fs0, sourceDir) /\ dep.pc # "start") =>
          dep.pc = "exit1" /\ fs = dep.fs0


====
